---- MODULE Spec2Model ----
(***************************************************************************)
(* Model of the container task launcher of porto (src/task.cpp,            *)
(* src/task.hpp): TTask::Start with its three processes (the supervisor    *)
(* that calls Start, the intermediate made by fork(), the grandchild made  *)
(* by clone()), the spawn pipe (Rfd/Wfd), the sync pipe                    *)
(* (WaitParentRfd/WaitParentWfd), and the operations of the task handle.   *)
(***************************************************************************)
EXTENDS Integers, Sequences, FiniteSets, TLC

\* ------------------------------------------------------------------ bounds

\* Grandchild pids handed out by clone() are 2..MaxPid (pid 1 is init).
MaxPid == 2
\* Env->LeafCgroups holds 0..MaxLeafCgroups entries.
MaxLeafCgroups == 1
\* Entries of bind_map.
MaxBinds == 1
\* lastCap, the highest capability of the kernel (/proc/sys/kernel/cap_last_cap).
LastCap == 9

ChildPids == 2 .. MaxPid

\* ------------------------------------------------------------- errno values

ENOMEM == 12
EAGAIN == 11
EINVAL == 22
ENODATA == 61
ENOENT == 2
CAP_SETPCAP == 8

\* ------------------------------------------------------------------ TError

Kinds == {"Unknown", "InvalidValue", "ResourceNotAvailable", "NoSpace"}

TError(kind, errno, msg) == [kind |-> kind, errno |-> errno, msg |-> msg]

\* TError::Success(): the error that converts to false.
Success == [kind |-> "Success", errno |-> 0, msg |-> ""]

IsError(e) == e.kind # "Success"

\* Numeric value of each EError kind on the wire.
KindCode(kind) ==
    CASE kind = "Success" -> 0
      [] kind = "Unknown" -> 1
      [] kind = "InvalidValue" -> 7
      [] kind = "ResourceNotAvailable" -> 10
      [] kind = "NoSpace" -> 14

\* The descriptions the launcher's errors carry.
Messages == << "partial read from child sync pipe",
               "clone()",
               "Partial write to child sync pipe",
               "pipe2(pdf)",
               "cgroup attach",
               "client mount namespace",
               "ReopenStdio",
               "ParentNs.Enter",
               "IsolateNet",
               "ChildApplyLimits",
               "setsid()",
               "remount slave",
               "datach procfs",
               "remount procfs",
               "ChildPrepareLoop",
               "ChildEnableNet",
               "ParentNs.Mnt.SetNs",
               "ParentNs.Root.Chroot",
               "Cwd.Chdir",
               "ChildMountRootFs",
               "ChildBindDirectores",
               "ChildRemountRootRo",
               "ChildIsolateFs",
               "ChildSetHostname",
               "remount shared",
               "ChildApplyCapabilities",
               "setgid()",
               "setgroups()",
               "setuid()",
               "ChildExec",
               "wordexp(): illegal occurrence of newline or one of |, &, ;, <, >, (, ), {, }",
               "wordexp(): undefined shell variable was referenced",
               "wordexp(): command substitution is not supported",
               "wordexp(): syntax error",
               "wordexp(): error 1",
               "wordexp(): error 6",
               "execvpe()" >>

MsgCode(msg) == CHOOSE i \in 1 .. Len(Messages) : Messages[i] = msg

\* TError::Serialize: the words one error record puts on a pipe.
Serialize(e) == << KindCode(e.kind), e.errno, MsgCode(e.msg) >>

\* TError::Deserialize on the words available at the read end: the error read
\* and the words left behind.  A stream that ends early or does not start
\* with the code of an error kind yields no error.
Deserialize(words) ==
    IF Len(words) >= 3
       /\ \E k \in Kinds : KindCode(k) = words[1]
       /\ words[3] \in 1 .. Len(Messages)
    THEN [error |-> TError(CHOOSE k \in Kinds : KindCode(k) = words[1],
                           words[2], Messages[words[3]]),
          rest |-> SubSeq(words, 4, Len(words))]
    ELSE [error |-> Success, rest |-> << >>]

\* ------------------------------------------------------------------- state

VARIABLES
    \* the task handle (class TTask)
    State,        \* ETaskState: "Stopped" or "Started"
    Pid,          \* pid_t Pid
    ExitStatus,   \* int ExitStatus
    EnvSet,       \* Env != nullptr
    StateAssigned, \* some operation has assigned State since construction
    env,          \* the TTaskEnv the handle was constructed with
    netEnabled,   \* config().network().enabled()
    \* the supervisor inside Start
    spv_pc,       \* "idle" (no call in progress), "waitpid", "readpid", "deser"
    status,       \* int status of waitpid
    supFds,       \* spawn pipe descriptors open in the supervisor
    lastOp,       \* the handle operation that returned last
    lastRet,      \* what it returned
    lastCall,     \* its argument, what it observed, State and Pid before it
    startErr,     \* the TError Start returned
    pidWord,      \* << w >> once the supervisor has read the word w from Rfd
    killsSent,    \* pids the supervisor sent SIGKILL to with kill(Pid, SIGKILL)
    forkKilled,   \* kill(forkPid, SIGKILL) was called
    \* the intermediate process (forkPid == 0 branch of Start)
    int_pc,       \* position; "none" before fork, "exited" / "killed" at the end
    cgIdx,        \* leaf cgroups attached so far
    intPend,      \* the error Abort is about to serialize
    clonePid,     \* what clone() returned
    intExit,      \* exit code of the intermediate (-1 while it has none)
    isoNet,       \* IsolateNet: "none", "ok", "failed"
    \* the grandchild (ChildFn / ChildCallback)
    gc_pc,        \* "none", "syncread", "steps", "execed", "aborted", "killed"
    gcStep,       \* index into ChildSteps of the next step
    gcPid,        \* pid of the grandchild, 0 when there is none
    gcDone,       \* the ChildCallback calls made, in order, each with its result
    gcErr,        \* the error ChildCallback returned
    gcExit,       \* exit code of the grandchild (-1 while it has none)
    gcSync,       \* what read(WaitParentRfd) gave: "none", "word", "eof"
    \* the pipes
    spawnPipe,    \* words written to Wfd and not yet read from Rfd
    syncPipe,     \* words written to WaitParentWfd and not yet read
    spawnLog,     \* every message written to Wfd, in order
    syncLog,      \* every word written to WaitParentWfd, in order
    \* the grandchild's file-system construction (ChildCallback, lines 789-825)
    fenv,         \* the TTaskEnv fields these calls read
    mounts,       \* the mount table, in mount order
    fsDone,       \* the calls that acted: "parentns", "remountro", "pivot", "hostname"
    fs_pc,        \* "idle", "begin", "bind", "remount", "isolate", "hostname", "done", "failed"
    bindIdx,      \* entries of Env->BindMap gone through
    fsErr,        \* the error the failing call returned
    \* the grandchild's capabilities (ChildApplyCapabilities, lines 181-211)
    cenv,         \* Env->Cred.IsRoot() and Env->Caps
    capInh,       \* inheritable set
    capBnd,       \* bounding set
    cap_pc,       \* "idle", "begin", "loop", "setpcap", "exec", "execed", "failed"
    capIdx,       \* the loop variable i
    \* one call of TTask::FixCgroups (lines 1109-1154)
    fix           \* what the call reads, where it is and what it attached

handleVars == << State, Pid, ExitStatus, EnvSet, StateAssigned, env, netEnabled >>
supVars == << spv_pc, status, supFds, lastOp, lastRet, lastCall, startErr, pidWord,
              killsSent, forkKilled >>
intVars == << int_pc, cgIdx, intPend, clonePid, intExit, isoNet >>
gcVars == << gc_pc, gcStep, gcPid, gcDone, gcErr, gcExit, gcSync >>
pipeVars == << spawnPipe, syncPipe, spawnLog, syncLog >>
fsVars == << fenv, mounts, fsDone, fs_pc, bindIdx, fsErr >>
capVars == << cenv, capInh, capBnd, cap_pc, capIdx >>
cgVars == << fix >>
childVars == << fsVars, capVars, cgVars >>
vars == << handleVars, supVars, intVars, gcVars, pipeVars, childVars >>

ExitStatuses == {0, -1, 256}

\* A TTaskEnv as far as the launcher's control flow reads it.  The three
\* flags that ask for new namespaces are set together or not at all: each of
\* them only decides whether its own calls of ChildCallback are made.
TaskEnvs ==
    { e \in [ CreateCwd : BOOLEAN,
              Isolate : BOOLEAN,
              NewMountNs : BOOLEAN,
              NewNetNs : BOOLEAN,
              ParentMntOpened : BOOLEAN,
              LeafCgroups : 0 .. MaxLeafCgroups ] :
        e.Isolate = e.NewMountNs /\ e.NewMountNs = e.NewNetNs }

\* Nothing read from /proc.
NoObs == [read |-> FALSE, leaf |-> "none", same |-> FALSE, zombie |-> FALSE]

\* No call of Exit, Kill, Restore or a consistency check to remember.
NoCall == [State |-> "Stopped", Pid |-> 0, arg |-> 0, obs |-> NoObs, sent |-> {}]

\* The processes as they are before fork().
NoRun ==
    /\ int_pc = "none" /\ cgIdx = 0 /\ intPend = Success /\ clonePid = 0
    /\ intExit = -1 /\ isoNet = "none"
    /\ gc_pc = "none" /\ gcStep = 1 /\ gcPid = 0 /\ gcDone = << >>
    /\ gcErr = Success /\ gcExit = -1 /\ gcSync = "none"
    /\ spawnPipe = << >> /\ syncPipe = << >>
    /\ spawnLog = << >> /\ syncLog = << >>

\* The grandchild's file-system construction and capability trim are
\* followed on their own, for one TTaskEnv at a time; here nothing of them
\* has begun.
NoFix == [pc |-> "idle"]

NoChild ==
    /\ fenv = [Root |-> << >>] /\ mounts = << >> /\ fsDone = {}
    /\ fs_pc = "idle" /\ bindIdx = 0 /\ fsErr = Success
    /\ cenv = [IsRoot |-> FALSE] /\ capInh = {} /\ capBnd = {}
    /\ cap_pc = "idle" /\ capIdx = 0
    /\ fix = NoFix

\* TTask(std::shared_ptr<const TTaskEnv> env) : Env(env) {}: the constructor
\* initialises Env only; State, ExitStatus and Pid hold whatever the storage
\* held.
Init ==
    /\ State \in {"Stopped", "Started"}
    /\ Pid \in {0} \cup ChildPids
    /\ ExitStatus \in ExitStatuses
    /\ EnvSet = TRUE
    /\ StateAssigned = FALSE
    /\ env \in TaskEnvs
    /\ netEnabled \in BOOLEAN
    /\ spv_pc = "idle" /\ status = 0 /\ supFds = {}
    /\ lastOp = "none" /\ lastRet = "none" /\ lastCall = NoCall
    /\ startErr = Success
    /\ pidWord = << >> /\ killsSent = {} /\ forkKilled = FALSE
    /\ NoRun
    /\ NoChild

\* A handle on which no operation has been called, with no process running.
Dormant ==
    /\ State = "Stopped" /\ Pid = 0 /\ ExitStatus = 0
    /\ EnvSet = TRUE /\ StateAssigned = FALSE
    /\ env = [CreateCwd |-> FALSE, Isolate |-> FALSE, NewMountNs |-> FALSE,
              NewNetNs |-> FALSE, ParentMntOpened |-> FALSE, LeafCgroups |-> 0]
    /\ netEnabled = FALSE
    /\ spv_pc = "idle" /\ status = 0 /\ supFds = {}
    /\ lastOp = "none" /\ lastRet = "none" /\ lastCall = NoCall
    /\ startErr = Success
    /\ pidWord = << >> /\ killsSent = {} /\ forkKilled = FALSE
    /\ NoRun

mainVars == << handleVars, supVars, intVars, gcVars, pipeVars >>

\* ------------------------------------------------------------ pipe helpers

PidMsg(who, pid) == [who |-> who, type |-> "pid", pid |-> pid, err |-> Success]
ErrMsg(who, e) == [who |-> who, type |-> "err", pid |-> 0, err |-> e]

IntAlive == int_pc \notin {"none", "exited", "killed"}
GcAlive == gc_pc \in {"syncread", "steps"}

\* Some process still holds a write end of the spawn pipe: the intermediate
\* until it ends, the grandchild until it ends or execs (O_CLOEXEC).  The
\* supervisor closed its own Wfd before it reads.
SpawnWriters == IntAlive \/ GcAlive

\* Mutant: the grandchild's read of the sync pipe does not wait for the
\* intermediate.
SyncWriters_None == FALSE

\* Mutant: the grandchild keeps its copy of WaitParentWfd open while it reads.
SyncWriters_Held == IntAlive \/ GcAlive

\* Some process still holds WaitParentWfd: the intermediate, from pipe2 to its
\* end (the grandchild closes its copy before it reads).
SyncWriters == IntAlive

\* ------------------------------------------------------------ TTask::Start

\* No process of an earlier Start is looked at any more.
ClearRun ==
    /\ int_pc' = "none" /\ cgIdx' = 0 /\ intPend' = Success /\ clonePid' = 0
    /\ intExit' = -1 /\ isoNet' = "none"
    /\ gc_pc' = "none" /\ gcStep' = 1 /\ gcPid' = 0 /\ gcDone' = << >>
    /\ gcErr' = Success /\ gcExit' = -1 /\ gcSync' = "none"
    /\ spawnPipe' = << >> /\ syncPipe' = << >>
    /\ spawnLog' = << >> /\ syncLog' = << >>

StartReturns(e) ==
    /\ spv_pc' = "idle"
    /\ lastOp' = "Start"
    /\ lastRet' = IF IsError(e) THEN "Err" ELSE "Ok"
    /\ lastCall' = NoCall
    /\ startErr' = e

\* Start called with Env == nullptr dereferences a null pointer; the model
\* has no such call.
StartEnabled == spv_pc = "idle" /\ EnvSet

\* Lines 853-862: CreateCwd() fails and Start returns its error.
StartCwdFail ==
    /\ StartEnabled
    /\ env.CreateCwd
    /\ Pid' = 0
    /\ \E kind \in {"NoSpace", "Unknown"} :
          StartReturns(TError(kind, ENOENT, "CreateCwd"))
    /\ status' = 0 /\ pidWord' = << >>
    /\ killsSent' = {} /\ forkKilled' = FALSE
    /\ ClearRun
    /\ UNCHANGED << State, ExitStatus, EnvSet, StateAssigned, env, netEnabled, childVars, supFds >>

\* Lines 853-871: pipe2(pfd) fails.
StartPipeFail ==
    /\ StartEnabled
    /\ Pid' = 0
    /\ ExitStatus' = 0
    /\ StartReturns(TError("Unknown", EINVAL, "pipe2(pdf)"))
    /\ status' = 0 /\ pidWord' = << >>
    /\ killsSent' = {} /\ forkKilled' = FALSE
    /\ ClearRun
    /\ UNCHANGED << State, EnvSet, StateAssigned, env, netEnabled, childVars, supFds >>

\* Lines 866-874: the descriptors pipe2(pfd, O_CLOEXEC) opens, kept in Rfd
\* and Wfd.
Pipe2Fds == {"Rfd", "Wfd"}

\* Mutant: the fork() failure path closes the read end only.
ForkFailCloses_RfdOnly == {"Rfd"}

\* Lines 884-885: what the fork() failure path closes.
ForkFailCloses == {"Rfd", "Wfd"}

\* Lines 853-886: pipe2 succeeds and fork() fails; both descriptors are
\* closed.
StartForkFail ==
    /\ StartEnabled
    /\ Pid' = 0
    /\ ExitStatus' = 0
    /\ supFds' = (supFds \cup Pipe2Fds) \ ForkFailCloses
    /\ StartReturns(TError("Unknown", EAGAIN, "fork()"))
    /\ status' = 0 /\ pidWord' = << >>
    /\ killsSent' = {} /\ forkKilled' = FALSE
    /\ ClearRun
    /\ UNCHANGED << State, EnvSet, StateAssigned, env, netEnabled, childVars >>

\* Mutant: the intermediate goes past the attach loop without attaching.
IntAfterAttach_Skip(n) == "clientns"

\* Where the intermediate starts: the attach loop, or past it when
\* Env->LeafCgroups is empty.
IntAfterAttach(n) == IF n < env.LeafCgroups THEN "attach" ELSE "clientns"

\* Lines 853-880 and 980-982: pipe2 and fork() succeed; the supervisor closes
\* Wfd and blocks in waitpid(forkPid); the intermediate starts.
StartFork ==
    /\ StartEnabled
    /\ Pid' = 0
    /\ ExitStatus' = 0
    /\ supFds' = (supFds \cup Pipe2Fds) \ {"Wfd"}
    /\ spv_pc' = "waitpid"
    /\ lastOp' = "Start" /\ lastRet' = "running" /\ lastCall' = NoCall
    /\ status' = 0 /\ startErr' = Success /\ pidWord' = << >>
    /\ killsSent' = {} /\ forkKilled' = FALSE
    /\ int_pc' = IntAfterAttach(0)
    /\ cgIdx' = 0 /\ intPend' = Success /\ clonePid' = 0
    /\ intExit' = -1 /\ isoNet' = "none"
    /\ gc_pc' = "none" /\ gcStep' = 1 /\ gcPid' = 0 /\ gcDone' = << >>
    /\ gcErr' = Success /\ gcExit' = -1 /\ gcSync' = "none"
    /\ spawnPipe' = << >> /\ syncPipe' = << >>
    /\ spawnLog' = << >> /\ syncLog' = << >>
    /\ UNCHANGED << State, EnvSet, StateAssigned, env, netEnabled, childVars >>

\* ------------------------------------------- the intermediate (lines 887-979)

\* ReportPid(pid): write(Wfd, &pid, sizeof(pid)).
ReportPid(pid) ==
    /\ spawnPipe' = Append(spawnPipe, pid)
    /\ spawnLog' = Append(spawnLog, PidMsg("int", pid))

\* Mutant: a failure path that calls Abort(error) without ReportPid(-1).
IntFail_NoReport(e) ==
    /\ UNCHANGED << spawnPipe, spawnLog >>
    /\ intPend' = e
    /\ int_pc' = "abort"

\* ReportPid(-1) of a failure before clone(); Abort(error) follows.
IntFail(e) ==
    /\ ReportPid(-1)
    /\ intPend' = e
    /\ int_pc' = "abort"

\* A step of the intermediate before clone(): it succeeds and the
\* intermediate goes on to `next`, or it fails with `e`.
IntStep(pc, next, e) ==
    /\ int_pc = pc
    /\ \/ /\ int_pc' = next
          /\ UNCHANGED << intPend, spawnPipe, spawnLog >>
       \/ IntFail(e)
    /\ UNCHANGED << cgIdx, clonePid, intExit, isoNet, syncPipe, syncLog >>
    /\ UNCHANGED << childVars, handleVars, supVars, gcVars >>

\* Lines 897-905: cg.second->Attach(getpid()) for the next leaf cgroup.
IntAttach ==
    /\ int_pc = "attach"
    /\ \/ /\ cgIdx' = cgIdx + 1
          /\ int_pc' = IntAfterAttach(cgIdx + 1)
          /\ UNCHANGED << intPend, spawnPipe, spawnLog >>
       \/ /\ IntFail(TError("Unknown", EINVAL, "cgroup attach"))
          /\ UNCHANGED cgIdx
    /\ UNCHANGED << clonePid, intExit, isoNet, syncPipe, syncLog >>
    /\ UNCHANGED << childVars, handleVars, supVars, gcVars >>

\* Lines 907-912: Env->ClientMntNs.SetNs().
IntClientMntNs ==
    IntStep("clientns", "stdio", TError("Unknown", EINVAL, "client mount namespace"))

\* Lines 914-918: ReopenStdio().
IntReopenStdio ==
    IntStep("stdio", "parentns", TError("Unknown", EINVAL, "ReopenStdio"))

\* Lines 920-925: Env->ParentNs.Enter().
IntEnterParentNs ==
    IntStep("parentns", "syncpipe", TError("Unknown", EINVAL, "ParentNs.Enter"))

\* Lines 940-949: pipe2(syncfd, O_CLOEXEC).
IntSyncPipe ==
    IntStep("syncpipe", "clone", TError("Unknown", EINVAL, "pipe2(pdf)"))

\* Lines 951-952: clone(ChildFn, ...) returns the grandchild's pid or -1; the
\* grandchild starts in ChildCallback, blocked in read(WaitParentRfd).
IntClone ==
    /\ int_pc = "clone"
    /\ \E p \in ChildPids \cup {-1} :
          /\ clonePid' = p
          /\ IF p > 0
             THEN gc_pc' = "syncread" /\ gcPid' = p
             ELSE UNCHANGED << gc_pc, gcPid >>
    /\ int_pc' = "report"
    /\ UNCHANGED << cgIdx, intPend, intExit, isoNet >>
    /\ UNCHANGED << gcStep, gcDone, gcErr, gcExit, gcSync >>
    /\ UNCHANGED << childVars, handleVars, supVars, pipeVars >>

\* Lines 955-957: the error of a failed clone().
CloneError(errno) ==
    TError(IF errno = ENOMEM THEN "ResourceNotAvailable" ELSE "Unknown",
           errno, "clone()")

\* Where the intermediate goes once the pid is reported (line 962).
IntAfterReport == IF netEnabled THEN "isonet" ELSE "syncwrite"

\* Lines 953-960: ReportPid(clonePid), and the error of a failed clone().
IntReportPid ==
    /\ int_pc = "report"
    /\ ReportPid(clonePid)
    /\ IF clonePid < 0
       THEN /\ \E errno \in {ENOMEM, EAGAIN} : intPend' = CloneError(errno)
            /\ int_pc' = "abort"
       ELSE /\ int_pc' = IntAfterReport
            /\ UNCHANGED intPend
    /\ UNCHANGED << cgIdx, clonePid, intExit, isoNet, syncPipe, syncLog >>
    /\ UNCHANGED << childVars, handleVars, supVars, gcVars >>

\* Mutant: the error of IsolateNet is ignored.
IntAfterIsolateNet_Ignore(error) == "syncwrite"

\* Lines 964-967: `if (error) Abort(error)` after IsolateNet.
IntAfterIsolateNet(error) == IF IsError(error) THEN "abort" ELSE "syncwrite"

\* Lines 962-968: IsolateNet(clonePid) returns success or an error.
IntIsolateNet ==
    /\ int_pc = "isonet"
    /\ \E error \in {Success, TError("Unknown", EINVAL, "IsolateNet")} :
          /\ isoNet' = IF IsError(error) THEN "failed" ELSE "ok"
          /\ intPend' = error
          /\ int_pc' = IntAfterIsolateNet(error)
    /\ UNCHANGED << cgIdx, clonePid, intExit >>
    /\ UNCHANGED << childVars, handleVars, supVars, gcVars, pipeVars >>

\* Lines 970-978: write(WaitParentWfd, &result, sizeof(result)) and
\* _exit(EXIT_SUCCESS), or the error of a failed write.
IntSyncWrite ==
    /\ int_pc = "syncwrite"
    /\ \/ /\ syncPipe' = Append(syncPipe, 0)
          /\ syncLog' = Append(syncLog, 0)
          /\ int_pc' = "exited"
          /\ intExit' = 0
          /\ UNCHANGED intPend
       \/ /\ intPend' = TError("Unknown", 0, "Partial write to child sync pipe")
          /\ int_pc' = "abort"
          /\ UNCHANGED << syncPipe, syncLog, intExit >>
    /\ UNCHANGED << cgIdx, clonePid, isoNet, spawnPipe, spawnLog >>
    /\ UNCHANGED << childVars, handleVars, supVars, gcVars >>

\* Lines 107-112, called by the intermediate: Abort(error) serializes the
\* error to Wfd and calls exit(EXIT_FAILURE).
IntAbort ==
    /\ int_pc = "abort"
    /\ spawnPipe' = spawnPipe \o Serialize(intPend)
    /\ spawnLog' = Append(spawnLog, ErrMsg("int", intPend))
    /\ int_pc' = "exited"
    /\ intExit' = 1
    /\ UNCHANGED << cgIdx, intPend, clonePid, isoNet, syncPipe, syncLog >>
    /\ UNCHANGED << childVars, handleVars, supVars, gcVars >>

\* ------------------------------- the grandchild (ChildFn, lines 114-121, 744-843)

\* Mutant: ChildDropPriveleges switches the user id before the group ids.
ChildSteps_UidFirst ==
    << "ChildApplyLimits", "setsid()", "remount slave",
       "datach procfs", "remount procfs", "ChildPrepareLoop",
       "ChildEnableNet",
       "ParentNs.Mnt.SetNs", "ParentNs.Root.Chroot", "Cwd.Chdir",
       "ChildMountRootFs", "ChildBindDirectores",
       "ChildRemountRootRo", "ChildIsolateFs", "Cwd.Chdir",
       "ChildSetHostname",
       "remount shared", "ChildApplyCapabilities",
       "setuid()", "setgroups()", "setgid()", "ChildExec" >>

\* The calls of ChildCallback after the sync read, in the order of the
\* source; the three calls of ChildDropPriveleges (lines 213-231) are listed
\* one by one.
ChildSteps == << "ChildApplyLimits", "setsid()", "remount slave",
                 "datach procfs", "remount procfs", "ChildPrepareLoop",
                 "ChildEnableNet",
                 "ParentNs.Mnt.SetNs", "ParentNs.Root.Chroot", "Cwd.Chdir",
                 "ChildMountRootFs", "ChildBindDirectores",
                 "ChildRemountRootRo", "ChildIsolateFs", "Cwd.Chdir",
                 "ChildSetHostname",
                 "remount shared", "ChildApplyCapabilities",
                 "setgid()", "setgroups()", "setuid()", "ChildExec" >>

\* Whether ChildCallback makes the i-th call for this Env.
StepRuns(i) ==
    CASE i = 3 -> env.NewMountNs
      [] i \in {4, 5, 6} -> env.Isolate
      [] i = 7 -> env.NewNetNs
      [] i \in {8, 9, 10} -> env.ParentMntOpened
      [] i \in 11 .. 16 -> ~env.ParentMntOpened
      [] i = 17 -> env.NewMountNs
      [] OTHER -> TRUE

\* The first call at or after position i that ChildCallback makes.
RECURSIVE StepFrom(_)
StepFrom(i) == IF i >= Len(ChildSteps) \/ StepRuns(i) THEN i ELSE StepFrom(i + 1)

\* The values wordexp() returns other than 0: the five of <wordexp.h> and one
\* that is none of them.
WRDE_NOSPACE == 1
WRDE_BADCHAR == 2
WRDE_BADVAL == 3
WRDE_CMDSUB == 4
WRDE_SYNTAX == 5
WRDE_OTHER == 6
WordexpFailures ==
    {WRDE_NOSPACE, WRDE_BADCHAR, WRDE_BADVAL, WRDE_CMDSUB, WRDE_SYNTAX, WRDE_OTHER}

\* Lines 244-259: the error ChildExec returns for the wordexp result `ret`.
WordexpError(ret) ==
    TError("Unknown", EINVAL,
           CASE ret = WRDE_BADCHAR ->
                  "wordexp(): illegal occurrence of newline or one of |, &, ;, <, >, (, ), {, }"
             [] ret = WRDE_BADVAL -> "wordexp(): undefined shell variable was referenced"
             [] ret = WRDE_CMDSUB -> "wordexp(): command substitution is not supported"
             [] ret = WRDE_SYNTAX -> "wordexp(): syntax error"
             [] ret = WRDE_NOSPACE -> "wordexp(): error 1"
             [] OTHER -> "wordexp(): error 6")

\* Line 271: the error ChildExec returns when execvpe() came back.
ExecError(errno) == TError("InvalidValue", errno, "execvpe()")

\* The errors a failing call returns.
StepErrors(step) ==
    CASE step = "ChildExec" ->
            {WordexpError(ret) : ret \in WordexpFailures} \cup {ExecError(ENOENT)}
      [] step = "ChildBindDirectores" ->
            {TError("InvalidValue", 0, step), TError("Unknown", EINVAL, step)}
      [] OTHER -> {TError("Unknown", EINVAL, step)}

\* ChildFn, lines 118-119, with Abort, lines 107-112: the error ChildCallback
\* returned is serialized to Wfd (the write fails when no read end is open
\* any more) and the grandchild exits with EXIT_FAILURE.
GcAbort(e) ==
    /\ gcErr' = e
    /\ gc_pc' = "aborted"
    /\ gcExit' = 1
    /\ IF "Rfd" \in supFds
       THEN /\ spawnPipe' = spawnPipe \o Serialize(e)
            /\ spawnLog' = Append(spawnLog, ErrMsg("gc", e))
       ELSE UNCHANGED << spawnPipe, spawnLog >>

\* Mutant: the result of the sync read is not checked.
SyncReadFails_Unchecked(got) == FALSE

\* Line 747: the read did not return a whole word (`got` words were read).
SyncReadFails(got) == got # 1

\* Mutant: the sync read's failure is reported with another message.
PartialReadError_Other == TError("Unknown", ENODATA, "Partial write to child sync pipe")

\* Line 748.
PartialReadError == TError("Unknown", ENODATA, "partial read from child sync pipe")

\* Lines 745-751: close(WaitParentWfd), then the blocking read of one word
\* from WaitParentRfd; fewer bytes than a word is the "partial read" error.
GcSyncRead ==
    /\ gc_pc = "syncread"
    /\ Len(syncPipe) >= 1 \/ ~SyncWriters
    /\ LET got == IF Len(syncPipe) >= 1 THEN 1 ELSE 0 IN
          /\ syncPipe' = IF got = 1 THEN Tail(syncPipe) ELSE syncPipe
          /\ gcSync' = IF got = 1 THEN "word" ELSE "eof"
          /\ IF SyncReadFails(got)
             THEN /\ GcAbort(PartialReadError)
                  /\ UNCHANGED gcStep
             ELSE /\ gc_pc' = "steps"
                  /\ gcStep' = StepFrom(1)
                  /\ UNCHANGED << gcErr, gcExit, spawnPipe, spawnLog >>
    /\ UNCHANGED << gcPid, gcDone, syncLog >>
    /\ UNCHANGED << childVars, handleVars, supVars, intVars >>

\* Mutant: the error of a call is dropped and ChildCallback goes on.
GcAfterStep_GoOn(step, error) ==
    /\ IF step = "ChildExec"
       THEN gc_pc' = "execed" /\ UNCHANGED gcStep
       ELSE gc_pc' = "steps" /\ gcStep' = StepFrom(gcStep + 1)
    /\ UNCHANGED << gcErr, gcExit, spawnPipe, spawnLog >>

\* What a call of ChildCallback that returned `error` leads to: `if (error)
\* return error;`, else the next call; ChildExec returns only when it failed.
GcAfterStep(step, error) ==
    IF IsError(error)
    THEN /\ GcAbort(error)
         /\ UNCHANGED gcStep
    ELSE /\ IF step = "ChildExec"
            THEN gc_pc' = "execed" /\ UNCHANGED gcStep
            ELSE gc_pc' = "steps" /\ gcStep' = StepFrom(gcStep + 1)
         /\ UNCHANGED << gcErr, gcExit, spawnPipe, spawnLog >>

\* Lines 752-842: the next call of ChildCallback.
GcStep ==
    /\ gc_pc = "steps"
    /\ LET step == ChildSteps[gcStep] IN
          \E error \in {Success} \cup StepErrors(step) :
             /\ gcDone' = Append(gcDone, [step |-> step, error |-> error])
             /\ GcAfterStep(step, error)
    /\ UNCHANGED << gcPid, gcSync, syncPipe, syncLog >>
    /\ UNCHANGED << childVars, handleVars, supVars, intVars >>

\* ------------------------------------- the supervisor in Start (lines 980-1014)

\* The wait status of a process that called exit(code).
WaitStatus(code) == code * 256

\* Lines 981-982: waitpid(forkPid, &status, 0) returns the intermediate's
\* status once it has exited.
SupWaitpid ==
    /\ spv_pc = "waitpid"
    /\ int_pc = "exited"
    /\ status' = WaitStatus(intExit)
    /\ spv_pc' = "readpid"
    /\ UNCHANGED << supFds, lastOp, lastRet, lastCall, startErr, pidWord, killsSent, forkKilled >>
    /\ UNCHANGED << childVars, handleVars, intVars, gcVars, pipeVars >>

\* Lines 982-984: waitpid fails (forkResult < 0), status keeps its 0 and the
\* intermediate is sent SIGKILL wherever it is.
SupWaitpidFail ==
    /\ spv_pc = "waitpid"
    /\ forkKilled' = TRUE
    /\ int_pc' = IF IntAlive THEN "killed" ELSE int_pc
    /\ spv_pc' = "readpid"
    /\ UNCHANGED << status, supFds, lastOp, lastRet, lastCall, startErr, pidWord, killsSent >>
    /\ UNCHANGED << cgIdx, intPend, clonePid, intExit, isoNet >>
    /\ UNCHANGED << childVars, handleVars, gcVars, pipeVars >>

\* Lines 986-990, n <= 0: nothing to read and no write end left open.
SupReadPidEof ==
    /\ spv_pc = "readpid"
    /\ Len(spawnPipe) = 0
    /\ ~SpawnWriters
    /\ supFds' = supFds \ {"Rfd"}
    /\ StartReturns(TError("InvalidValue", 0,
                           "Container couldn't start due to resource limits"))
    /\ UNCHANGED << status, pidWord, killsSent, forkKilled >>
    /\ UNCHANGED << childVars, handleVars, intVars, gcVars, pipeVars >>

\* Line 986, n > 0: read(Rfd, &Pid, sizeof(Pid)) takes the first word.
SupReadPid ==
    /\ spv_pc = "readpid"
    /\ Len(spawnPipe) >= 1
    /\ Pid' = Head(spawnPipe)
    /\ pidWord' = << Head(spawnPipe) >>
    /\ spawnPipe' = Tail(spawnPipe)
    /\ spv_pc' = "deser"
    /\ UNCHANGED << status, supFds, lastOp, lastRet, lastCall, startErr, killsSent, forkKilled >>
    /\ UNCHANGED << State, ExitStatus, EnvSet, StateAssigned, env, netEnabled, childVars >>
    /\ UNCHANGED << intVars, gcVars, syncPipe, spawnLog, syncLog >>

\* Line 995: the test that makes Start fail after the pid was read.
StartFailed(error, st) == IsError(error) \/ st # 0

\* Mutant: the failure path forgets kill(Pid, SIGKILL).
KillTargets_NoKill(pid) == {}

\* Lines 996-999: the pids kill(Pid, SIGKILL) is sent to.
KillTargets(pid) == IF pid > 0 THEN {pid} ELSE {}

\* Mutant: Start always returns its own "resource limits" error.
ReturnedError_Generic(error, st) ==
    TError("InvalidValue", 0,
           "Container couldn't start due to resource limits (child terminated)")

\* Lines 1003-1006: the error Start returns on failure.
ReturnedError(error, st) ==
    IF IsError(error)
    THEN error
    ELSE TError("InvalidValue", 0,
                "Container couldn't start due to resource limits (child terminated)")

\* Lines 992-1014: Deserialize(Rfd, error) blocks until a record or the end
\* of the pipe, Rfd is closed, and Start either kills what it spawned and
\* returns the error or marks the task Started.
SupDeserialize ==
    /\ spv_pc = "deser"
    /\ Len(spawnPipe) >= 3 \/ ~SpawnWriters
    /\ LET d == Deserialize(spawnPipe) IN
          /\ spawnPipe' = d.rest
          /\ supFds' = supFds \ {"Rfd"}
          /\ IF StartFailed(d.error, status)
             THEN /\ killsSent' = KillTargets(Pid)
                  /\ IF gcPid \in KillTargets(Pid) /\ gc_pc \in {"syncread", "steps", "execed"}
                     THEN gc_pc' = "killed"
                     ELSE UNCHANGED gc_pc
                  /\ Pid' = 0
                  /\ ExitStatus' = -1
                  /\ StartReturns(ReturnedError(d.error, status))
                  /\ UNCHANGED << State, EnvSet, StateAssigned >>
             ELSE /\ State' = "Started"
                  /\ StateAssigned' = TRUE
                  /\ EnvSet' = FALSE
                  /\ StartReturns(Success)
                  /\ UNCHANGED << Pid, ExitStatus, killsSent, gc_pc >>
    /\ UNCHANGED << status, pidWord, forkKilled, env, netEnabled, childVars >>
    /\ UNCHANGED << gcStep, gcPid, gcDone, gcErr, gcExit, gcSync >>
    /\ UNCHANGED << intVars, syncPipe, spawnLog, syncLog >>

\* --------------------------------------- the other operations of the handle

\* A call on the handle outside Start: the processes of the last Start are
\* no longer looked at.
HandleCall(op, ret, call) ==
    /\ spv_pc = "idle"
    /\ lastOp' = op
    /\ lastRet' = ret
    /\ lastCall' = call
    /\ spv_pc' = "idle"
    /\ status' = 0 /\ startErr' = Success /\ pidWord' = << >>
    /\ killsSent' = {} /\ forkKilled' = FALSE
    /\ ClearRun
    /\ UNCHANGED << supFds, env, netEnabled, childVars >>

\* What a call is remembered by: its argument, what it read from /proc, the
\* processes it signalled, and State and Pid as they were when it was made.
Call(arg, obs, sent) ==
    [State |-> State, Pid |-> Pid, arg |-> arg, obs |-> obs, sent |-> sent]

\* Mutant: Exit records the status and leaves State alone.
ExitState_Kept(st) == st

\* Line 1030: State = Stopped, whatever State was.
ExitState(st) == "Stopped"

\* Lines 1028-1031.
Exit ==
    \E st \in ExitStatuses :
        /\ HandleCall("Exit", "void", Call(st, NoObs, {}))
        /\ ExitStatus' = st
        /\ State' = ExitState(State)
        /\ StateAssigned' = TRUE
        /\ UNCHANGED << Pid, EnvSet >>

\* The signals Kill is called with: SIGKILL and SIGTERM.
Signals == {9, 15}

\* kill(2): the processes kill(pid, sig) signals.  A positive pid names one
\* process; -1 names every process the caller may signal.
Signalled(pid) ==
    IF pid > 0 THEN {pid} ELSE IF pid = -1 THEN ChildPids ELSE {}

\* Lines 1033-1044: `throw` when Pid is 0, else kill(Pid, signal), which
\* delivers the signal or fails (ret != 0) and is reported as an error.
Kill ==
    \E sig \in Signals, delivered \in BOOLEAN :
        /\ IF Pid = 0
           THEN HandleCall("Kill", "throw", Call(sig, NoObs, {}))
           ELSE IF delivered
           THEN HandleCall("Kill", "Ok", Call(sig, NoObs, Signalled(Pid)))
           ELSE HandleCall("Kill", "Err", Call(sig, NoObs, {}))
        /\ UNCHANGED << State, Pid, ExitStatus, EnvSet, StateAssigned >>

\* Lines 1103-1107.
Restore ==
    \E pid_ \in ChildPids :
        /\ HandleCall("Restore", "void", Call(pid_, NoObs, {}))
        /\ ExitStatus' = 0
        /\ Pid' = pid_
        /\ State' = "Started"
        /\ StateAssigned' = TRUE
        /\ UNCHANGED EnvSet

\* What HasCorrectParent reads: whether GetPPid succeeded and whether the
\* PPid it gave equals getppid().
ParentObs ==
    { [read |-> r, leaf |-> "none", same |-> s, zombie |-> FALSE] :
        r \in BOOLEAN, s \in BOOLEAN }

\* Lines 1061-1075: GetPPid fails, or the PPid differs from getppid(), or not.
\* No field of the handle is assigned.
HasCorrectParent ==
    \E obs \in ParentObs :
        /\ HandleCall("HasCorrectParent",
                      IF obs.read /\ obs.same THEN "true" ELSE "false",
                      Call(0, obs, {}))
        /\ UNCHANGED << State, Pid, ExitStatus, EnvSet, StateAssigned >>

\* What HasCorrectFreezer reads: whether GetTaskCgroups succeeded, what
\* Env->LeafCgroups holds for the freezer subsystem (no entry, a null pointer
\* or a cgroup), whether that cgroup's Relpath() equals the task's freezer
\* path, and whether /proc/<pid>/status says "Z".
FreezerObs ==
    { [read |-> r, leaf |-> l, same |-> s, zombie |-> z] :
        r \in BOOLEAN, l \in {"missing", "null", "set"},
        s \in BOOLEAN, z \in BOOLEAN }

\* Mutant: the zombie probe of line 1091 is left out.
FreezerCheck_NoZombie(obs) ==
    IF ~obs.read THEN "false"
    ELSE IF obs.leaf = "missing" THEN "throw"
    ELSE IF obs.leaf = "set" /\ ~obs.same THEN "demote"
    ELSE "true"

\* Lines 1081-1100: the way HasCorrectFreezer leaves.  map::at throws when
\* LeafCgroups has no freezer entry.
FreezerCheck(obs) ==
    IF ~obs.read THEN "false"
    ELSE IF obs.leaf = "missing" THEN "throw"
    ELSE IF obs.leaf = "set" /\ ~obs.same
    THEN IF obs.zombie THEN "true" ELSE "demote"
    ELSE "true"

\* Lines 1077-1101.  Env is dereferenced, so the handle still holds it.
HasCorrectFreezer ==
    /\ EnvSet
    /\ \E obs \in FreezerObs :
          LET out == FreezerCheck(obs) IN
          IF out = "demote"
          THEN /\ HandleCall("HasCorrectFreezer", "false", Call(0, obs, {}))
               /\ Pid' = 0
               /\ State' = "Stopped"
               /\ StateAssigned' = TRUE
               /\ UNCHANGED << ExitStatus, EnvSet >>
          ELSE /\ HandleCall("HasCorrectFreezer", out, Call(0, obs, {}))
               /\ UNCHANGED << State, Pid, ExitStatus, EnvSet, StateAssigned >>

\* -------------------------------------------------------------------- paths

\* A path is the sequence of its components; << >> is "/".
RootDir == << >>

\* The characters of a component, for the comparisons made on strings.
Spelling(c) ==
    CASE c = "r2" -> << "r", "2" >>
      [] c = ".." -> << ".", "." >>
      [] OTHER -> << c >>

RECURSIVE PathChars(_)
PathChars(path) ==
    IF path = << >>
    THEN << >>
    ELSE << "/" >> \o Spelling(Head(path)) \o PathChars(Tail(path))

\* TPath::ToString of an absolute path.
ToStr(path) == IF path = << >> THEN << "/" >> ELSE PathChars(path)

\* StringStartsWith(str, prefix): a comparison of characters.
StringStartsWith(str, prefix) ==
    Len(str) >= Len(prefix) /\ SubSeq(str, 1, Len(prefix)) = prefix

\* ".." components resolved from left to right; ".." of "/" is "/".
RECURSIVE Resolve(_, _)
Resolve(comps, acc) ==
    IF comps = << >>
    THEN acc
    ELSE IF Head(comps) = ".."
    THEN Resolve(Tail(comps),
                 IF acc = << >> THEN << >> ELSE SubSeq(acc, 1, Len(acc) - 1))
    ELSE Resolve(Tail(comps), Append(acc, Head(comps)))

\* TPath::RealPath of an absolute path whose directories exist and hold no
\* symbolic links.
RealPath(path) == Resolve(path, << >>)

\* TPath::NormalPath: an absolute path stays absolute, a relative one relative.
NormalPath(p) == [abs |-> p.abs, comps |-> Resolve(p.comps, << >>)]

\* TPath::InnerPath: `path` as seen from inside `base`, empty when `path` is
\* not `base` or beneath it.
InnerPath(base, path) ==
    IF Len(path) >= Len(base) /\ SubSeq(path, 1, Len(base)) = base
    THEN [empty |-> FALSE, comps |-> SubSeq(path, Len(base) + 1, Len(path))]
    ELSE [empty |-> TRUE, comps |-> << >>]

\* ----------------------- file-system construction (ChildCallback, 789-825)

\* Destinations of bind_map entries: /d, d (relative to cwd), /../r2 and
\* /../e.
BindDests ==
    { [abs |-> TRUE, comps |-> << "d" >>],
      [abs |-> FALSE, comps |-> << "d" >>],
      [abs |-> TRUE, comps |-> << "..", "r2" >>],
      [abs |-> TRUE, comps |-> << "..", "e" >>] }

BindEntries == [Dest : BindDests, Rdonly : BOOLEAN]

BindMaps == UNION { [1 .. n -> BindEntries] : n \in 0 .. MaxBinds }

\* The TTaskEnv fields the construction reads: root is "/" or "/r", cwd is
\* "/w".
FsEnvs ==
    [ Root : { RootDir, << "r" >> },
      Cwd : { << "w" >> },
      BindMap : BindMaps,
      RootRdOnly : BOOLEAN,
      LoopEmpty : BOOLEAN,
      NewMountNs : BOOLEAN,
      ParentMntOpened : BOOLEAN,
      Privileged : BOOLEAN,
      BindDns : BOOLEAN,
      HasHostname : BOOLEAN ]

\* One line of the mount table; `entry` is the index of the bind_map entry
\* a bind mount was made for, 0 for the others.
Mnt(point, ro, kind, entry) ==
    [point |-> point, ro |-> ro, kind |-> kind, entry |-> entry]

\* What is mounted when the grandchild starts: "/" and "/e", read-write.
HostMounts ==
    << Mnt(RootDir, FALSE, "host", 0), Mnt(<< "e" >>, FALSE, "host", 0) >>

FsInit ==
    /\ Dormant
    /\ fenv \in FsEnvs
    /\ mounts = HostMounts
    /\ fsDone = {}
    /\ fs_pc = "begin"
    /\ bindIdx = 0
    /\ fsErr = Success
    /\ cenv = [IsRoot |-> FALSE] /\ capInh = {} /\ capBnd = {}
    /\ cap_pc = "idle" /\ capIdx = 0
    /\ fix = NoFix

\* A call of ChildCallback returned `e`: ChildCallback returns it and no
\* later call is made.
FsFail(e) ==
    /\ fs_pc' = "failed"
    /\ fsErr' = e

\* Lines 789-800: the parent's mount namespace is entered, then chroot and
\* chdir; none of the calls of the else branch is made.
FsParentNs ==
    /\ fs_pc = "begin"
    /\ fenv.ParentMntOpened
    /\ \E ok \in BOOLEAN :
          IF ok
          THEN /\ fsDone' = fsDone \cup {"parentns"}
               /\ fs_pc' = "done"
               /\ UNCHANGED fsErr
          ELSE /\ FsFail(TError("Unknown", EINVAL, "ParentNs.Mnt.SetNs"))
               /\ UNCHANGED fsDone
    /\ UNCHANGED << fenv, mounts, bindIdx >>
    /\ UNCHANGED << mainVars, capVars, cgVars >>

\* Mutant: ChildMountRootFs does not look at Root.
MountsRootFs_Always(root) == TRUE

\* Line 477: ChildMountRootFs returns at once when Root.IsRoot().
MountsRootFs(root) == root # RootDir

\* The paths of `roproc` (line 331).
roproc ==
    { << "proc", "sysrq-trigger" >>, << "proc", "irq" >>, << "proc", "bus" >> }

\* Lines 333-352, ChildRestrictProc: read-only binds over the roproc paths
\* (and /proc/sys when restrictProcSys), /dev/null bound over /proc/kcore.
RestrictProcMounts(e) ==
    << Mnt(e.Root \o << "proc", "sysrq-trigger" >>, TRUE, "roproc", 0),
       Mnt(e.Root \o << "proc", "irq" >>, TRUE, "roproc", 0),
       Mnt(e.Root \o << "proc", "bus" >>, TRUE, "roproc", 0) >>
    \o (IF e.Privileged
        THEN << >>
        ELSE << Mnt(e.Root \o << "proc", "sys" >>, TRUE, "roproc", 0) >>)
    \o << Mnt(e.Root \o << "proc", "kcore" >>, FALSE, "kcore", 0) >>

\* Lines 480-530: the mounts ChildMountRootFs makes, in order.
RootFsMounts(e) ==
    << IF e.LoopEmpty
       THEN Mnt(e.Root, FALSE, "rootbind", 0)
       ELSE Mnt(e.Root, e.RootRdOnly, "loop", 0),
       Mnt(e.Root \o << "sys" >>, TRUE, "sysfs", 0),
       Mnt(e.Root \o << "proc" >>, FALSE, "proc", 0) >>
    \o RestrictProcMounts(e)
    \o << Mnt(e.Root \o << "dev" >>, FALSE, "dev", 0),
          Mnt(e.Root \o << "dev", "pts" >>, FALSE, "devpts", 0) >>
    \o (IF e.LoopEmpty
        THEN << >>
        ELSE << Mnt(e.Root \o << "run" >>, FALSE, "run", 0) >>)
    \o << Mnt(e.Root \o << "dev", "shm" >>, FALSE, "shm", 0) >>
    \o (IF e.BindDns
        THEN << Mnt(e.Root \o << "etc", "hosts" >>, TRUE, "dns", 0),
                Mnt(e.Root \o << "etc", "resolv.conf" >>, TRUE, "dns", 0) >>
        ELSE << >>)

\* Where ChildCallback is once `n` entries of BindMap are gone through.
AfterBind(n) == IF n < Len(fenv.BindMap) THEN "bind" ELSE "remount"

\* Lines 801-803 with 475-533: ChildMountRootFs.  A mount that fails ends
\* ChildCallback (the first one, here).
FsMountRootFs ==
    /\ fs_pc = "begin"
    /\ ~fenv.ParentMntOpened
    /\ \E ok \in BOOLEAN :
          IF ~MountsRootFs(fenv.Root)
          THEN /\ fs_pc' = AfterBind(0)
               /\ UNCHANGED << mounts, fsErr >>
          ELSE IF ok
          THEN /\ mounts' = mounts \o RootFsMounts(fenv)
               /\ fs_pc' = AfterBind(0)
               /\ UNCHANGED fsErr
          ELSE /\ FsFail(TError("Unknown", EINVAL, "ChildMountRootFs"))
               /\ UNCHANGED mounts
    /\ UNCHANGED << fenv, fsDone, bindIdx >>
    /\ UNCHANGED << mainVars, capVars, cgVars >>

\* Lines 291-294: Root / Dest, or Root / Cwd / Dest for a relative Dest.
BindDest(e, dest) ==
    IF dest.abs THEN e.Root \o dest.comps ELSE e.Root \o e.Cwd \o dest.comps

\* Line 296: the test a destination has to pass.
BindAccepted(e, dest) ==
    StringStartsWith(ToStr(RealPath(BindDest(e, dest))), ToStr(e.Root))

\* Lines 297-300.
ResolvesToRoot == TError("InvalidValue", 0, "Container bind mount resolves to root")

\* Lines 288-319, one turn of the loop of ChildBindDirectores: the entry is
\* refused, or bind-mounted (and remounted with its Rdonly when NewMountNs),
\* or the mount fails.
FsBindDirectores ==
    /\ fs_pc = "bind"
    /\ LET b == fenv.BindMap[bindIdx + 1] IN
          IF ~BindAccepted(fenv, b.Dest)
          THEN /\ FsFail(ResolvesToRoot)
               /\ UNCHANGED << mounts, bindIdx >>
          ELSE \E ok \in BOOLEAN :
                  IF ok
                  THEN /\ mounts' = Append(mounts,
                                           Mnt(RealPath(BindDest(fenv, b.Dest)),
                                               b.Rdonly, "bind", bindIdx + 1))
                       /\ bindIdx' = bindIdx + 1
                       /\ fs_pc' = AfterBind(bindIdx + 1)
                       /\ UNCHANGED fsErr
                  ELSE /\ FsFail(TError("Unknown", EINVAL, "ChildBindDirectores"))
                       /\ UNCHANGED << mounts, bindIdx >>
    /\ UNCHANGED << fenv, fsDone >>
    /\ UNCHANGED << mainVars, capVars, cgVars >>

\* mount(MS_REMOUNT | MS_BIND [| MS_RDONLY]) on a mount point: the mount on
\* top there becomes read-only or read-write.
Remount(ms, point, ro) ==
    LET at == { i \in DOMAIN ms : ms[i].point = point } IN
    IF at = {}
    THEN ms
    ELSE LET top == CHOOSE i \in at : \A j \in at : j <= i IN
         [ms EXCEPT ![top].ro = ro]

\* Line 429: the pass is made only with RootRdOnly and no loop image.
RemountPassRuns(e) == e.RootRdOnly /\ e.LoopEmpty

\* Lines 439-464: the mount points the pass leaves alone: those not under
\* Root, those with a roproc path at or beneath them, and those whose path
\* inside Root is the Dest of a bind_map entry.
SkipsRemount(e, point) ==
    LET path == InnerPath(e.Root, point) IN
       \/ path.empty
       \/ \E dir \in roproc : ~InnerPath(path.comps, dir).empty
       \/ \E i \in DOMAIN e.BindMap :
             NormalPath(e.BindMap[i].Dest)
                = NormalPath([abs |-> TRUE, comps |-> path.comps])

\* Lines 438-470: the loop over the snapshot of the mount table.
RECURSIVE RemountPass(_, _, _, _)
RemountPass(e, snapshot, i, ms) ==
    IF i > Len(snapshot)
    THEN ms
    ELSE RemountPass(e, snapshot, i + 1,
                     IF SkipsRemount(e, snapshot[i].point)
                     THEN ms
                     ELSE Remount(ms, snapshot[i].point, TRUE))

\* Lines 809-811 with 428-473: ChildRemountRootRo.
FsRemountRootRo ==
    /\ fs_pc = "remount"
    /\ \E ok \in BOOLEAN :
          IF ~RemountPassRuns(fenv)
          THEN /\ fs_pc' = "isolate"
               /\ UNCHANGED << mounts, fsDone, fsErr >>
          ELSE IF ok
          THEN /\ mounts' = RemountPass(fenv, mounts, 1, mounts)
               /\ fsDone' = fsDone \cup {"remountro"}
               /\ fs_pc' = "isolate"
               /\ UNCHANGED fsErr
          ELSE /\ FsFail(TError("Unknown", EINVAL, "ChildRemountRootRo"))
               /\ UNCHANGED << mounts, fsDone >>
    /\ UNCHANGED << fenv, bindIdx >>
    /\ UNCHANGED << mainVars, capVars, cgVars >>

\* Lines 813-815 with 535-559: ChildIsolateFs returns at once when
\* Root.IsRoot(); else pivot_root (or chroot) into Root and the remount of
\* the new "/" with MS_RDONLY when RootRdOnly.
FsIsolateFs ==
    /\ fs_pc = "isolate"
    /\ \E ok \in BOOLEAN :
          IF fenv.Root = RootDir
          THEN /\ fs_pc' = "hostname"
               /\ UNCHANGED << mounts, fsDone, fsErr >>
          ELSE IF ok
          THEN /\ mounts' = Remount(mounts, fenv.Root, fenv.RootRdOnly)
               /\ fsDone' = fsDone \cup {"pivot"}
               /\ fs_pc' = "hostname"
               /\ UNCHANGED fsErr
          ELSE /\ FsFail(TError("Unknown", EINVAL, "ChildIsolateFs"))
               /\ UNCHANGED << mounts, fsDone >>
    /\ UNCHANGED << fenv, bindIdx >>
    /\ UNCHANGED << mainVars, capVars, cgVars >>

\* Lines 817-824 with 713-729: Cwd.Chdir(), then ChildSetHostname, which
\* does nothing for an empty Hostname or when Root is "/".
FsSetHostname ==
    /\ fs_pc = "hostname"
    /\ \E ok \in BOOLEAN :
          IF ok
          THEN /\ fsDone' = IF fenv.HasHostname /\ fenv.Root # RootDir
                            THEN fsDone \cup {"hostname"}
                            ELSE fsDone
               /\ fs_pc' = "done"
               /\ UNCHANGED fsErr
          ELSE /\ FsFail(TError("Unknown", EINVAL, "Cwd.Chdir"))
               /\ UNCHANGED fsDone
    /\ UNCHANGED << fenv, mounts, bindIdx >>
    /\ UNCHANGED << mainVars, capVars, cgVars >>

FsNext ==
    \/ FsParentNs
    \/ FsMountRootFs
    \/ FsBindDirectores
    \/ FsRemountRootRo
    \/ FsIsolateFs
    \/ FsSetHostname

\* The else branch of lines 789-825 and the calls it makes, for every
\* TTaskEnv of FsEnvs.
FsSpec == FsInit /\ [][FsNext]_vars

\* ------------------------------ ChildApplyCapabilities (lines 181-211)

AllCaps == 0 .. LastCap

\* Env->Cred.IsRoot() and Env->Caps, the latter out of bit 0, CAP_SETPCAP
\* and the last capability.
CapEnvs == [IsRoot : BOOLEAN, Caps : SUBSET {0, CAP_SETPCAP, LastCap}]

\* The grandchild runs as root with every capability in its bounding set
\* and none inheritable.
CapInit ==
    /\ Dormant
    /\ fenv = [Root |-> << >>] /\ mounts = << >> /\ fsDone = {}
    /\ fs_pc = "idle" /\ bindIdx = 0 /\ fsErr = Success
    /\ cenv \in CapEnvs
    /\ capInh = {}
    /\ capBnd = AllCaps
    /\ cap_pc = "begin"
    /\ capIdx = 0
    /\ fix = NoFix

\* Where the loop of line 196 is with i = n.
AfterCapLoop(n) == IF n <= LastCap THEN "loop" ELSE "setpcap"

\* Lines 184-194: nothing for a credential that is not root; else
\* SetCap(-1, -1, Env->Caps).
CapBegin ==
    /\ cap_pc = "begin"
    /\ \E ok \in BOOLEAN :
          IF ~cenv.IsRoot
          THEN /\ cap_pc' = "exec"
               /\ UNCHANGED << capInh, capIdx >>
          ELSE IF ok
          THEN /\ capInh' = cenv.Caps
               /\ capIdx' = 0
               /\ cap_pc' = AfterCapLoop(0)
          ELSE /\ cap_pc' = "failed"
               /\ UNCHANGED << capInh, capIdx >>
    /\ UNCHANGED << cenv, capBnd >>
    /\ UNCHANGED << mainVars, fsVars, cgVars >>

\* Mutant: the loop drops CAP_SETPCAP when it comes to it.
DropsInLoop_Setpcap(i, caps) == i \notin caps

\* Line 197: the bits the loop drops.
DropsInLoop(i, caps) == i \notin caps /\ i # CAP_SETPCAP

\* Lines 196-202: one turn of the loop; DropBoundedCap(i) may fail.
CapLoop ==
    /\ cap_pc = "loop"
    /\ \E ok \in BOOLEAN :
          IF ~DropsInLoop(capIdx, cenv.Caps)
          THEN /\ capIdx' = capIdx + 1
               /\ cap_pc' = AfterCapLoop(capIdx + 1)
               /\ UNCHANGED capBnd
          ELSE IF ok
          THEN /\ capBnd' = capBnd \ {capIdx}
               /\ capIdx' = capIdx + 1
               /\ cap_pc' = AfterCapLoop(capIdx + 1)
          ELSE /\ cap_pc' = "failed"
               /\ UNCHANGED << capBnd, capIdx >>
    /\ UNCHANGED << cenv, capInh >>
    /\ UNCHANGED << mainVars, fsVars, cgVars >>

\* Mutant: CAP_SETPCAP is never dropped.
DropsSetpcapLast_Never(caps) == FALSE

\* Line 204.
DropsSetpcapLast(caps) == CAP_SETPCAP \notin caps

\* Lines 204-208.
CapSetpcap ==
    /\ cap_pc = "setpcap"
    /\ \E ok \in BOOLEAN :
          IF ~DropsSetpcapLast(cenv.Caps)
          THEN /\ cap_pc' = "exec"
               /\ UNCHANGED capBnd
          ELSE IF ok
          THEN /\ capBnd' = capBnd \ {CAP_SETPCAP}
               /\ cap_pc' = "exec"
          ELSE /\ cap_pc' = "failed"
               /\ UNCHANGED capBnd
    /\ UNCHANGED << cenv, capInh, capIdx >>
    /\ UNCHANGED << mainVars, fsVars, cgVars >>

\* Lines 836-842: ChildDropPriveleges and ChildExec; neither changes the
\* bounding or the inheritable set.
CapExec ==
    /\ cap_pc = "exec"
    /\ \E ok \in BOOLEAN : cap_pc' = IF ok THEN "execed" ELSE "failed"
    /\ UNCHANGED << cenv, capInh, capBnd, capIdx >>
    /\ UNCHANGED << mainVars, fsVars, cgVars >>

CapNext == CapBegin \/ CapLoop \/ CapSetpcap \/ CapExec

\* ChildApplyCapabilities up to exec, for every TTaskEnv of CapEnvs.
CapSpec == CapInit /\ [][CapNext]_vars

\* ------------------------------------------------------ TTask::FixCgroups

MaxCgEntries == 2

\* Keys of the map GetTaskCgroups fills from /proc/<pid>/cgroup: the
\* controllers of one hierarchy, which the file joins with ','.  std::map
\* iterates in key order, the order of this list ("cpu,cpuacct" < "freezer"
\* < "name=systemd" < "net_cls").
CgKeys == << << "cpu", "cpuacct" >>, << "freezer" >>, << "name=systemd" >>,
             << "net_cls" >> >>

\* Cgroup paths; "/" is the root of a hierarchy.
CgPaths == {"/", "/a", "/b"}

\* One pair of the map with what lines 1119-1122 and 1143-1144 find for it:
\* `known` is TSubsystem::Get(pair.first) != nullptr, `leaf` is the Relpath
\* of Env->LeafCgroups.at(subsys), "" when LeafCgroups has no such key.  Only
\* a single controller that is no named hierarchy can be a subsystem.
CgEntries ==
    { e \in [k : 1 .. Len(CgKeys), known : BOOLEAN,
             leaf : {""} \cup CgPaths, path : CgPaths] :
        /\ e.leaf # "" => e.known
        /\ e.known => CgKeys[e.k] \in {<< "freezer" >>, << "net_cls" >>} }

CgMaps ==
    UNION { { m \in [1 .. n -> CgEntries] :
                \A i \in 1 .. n - 1 : m[i].k < m[i + 1].k } :
            n \in 0 .. MaxCgEntries }

\* The task is no zombie or is one, /proc/<pid>/cgroup is read or not,
\* config().network().enabled(), and the map read.
FixInit ==
    /\ Dormant
    /\ fenv = [Root |-> << >>] /\ mounts = << >> /\ fsDone = {}
    /\ fs_pc = "idle" /\ bindIdx = 0 /\ fsErr = Success
    /\ cenv = [IsRoot |-> FALSE] /\ capInh = {} /\ capBnd = {}
    /\ cap_pc = "idle" /\ capIdx = 0
    /\ fix \in { [zombie |-> z, readOk |-> r, net |-> n, cgmap |-> m,
                  idx |-> 0, attached |-> << >>, pc |-> "begin",
                  ret |-> "none"] :
                 z \in BOOLEAN, r \in BOOLEAN, n \in BOOLEAN, m \in CgMaps }

\* Where the loop of line 1118 is at pair n.
AfterPair(n) == IF n <= Len(fix.cgmap) THEN "loop" ELSE "done"

\* Lines 1110-1116: a zombie is left alone, and an error of GetTaskCgroups
\* is returned.
FixBegin ==
    /\ fix.pc = "begin"
    /\ fix' = IF fix.zombie
              THEN [fix EXCEPT !.pc = "done", !.ret = "Success"]
              ELSE IF ~fix.readOk
              THEN [fix EXCEPT !.pc = "done", !.ret = "Error"]
              ELSE [fix EXCEPT !.pc = AfterPair(1), !.idx = 1,
                               !.ret = IF AfterPair(1) = "done"
                                       THEN "Success" ELSE "none"]
    /\ UNCHANGED << mainVars, fsVars, capVars >>

\* Lines 1119-1150: what one pair makes FixCgroups do: attach the task to
\* the root cgroup of the subsystem ("root"), to the leaf cgroup ("leaf"),
\* nothing ("none"), or call subsys->GetName() through a null pointer
\* ("null").
FixAttach(e, net) ==
    IF ~e.known \/ e.leaf = ""
    THEN IF Len(CgKeys[e.k]) > 1
         THEN "none"
         ELSE IF CgKeys[e.k] = << "net_cls" >> /\ ~net
         THEN IF e.path = "/"
              THEN "none"
              ELSE IF e.known THEN "root" ELSE "null"
         ELSE "none"
    ELSE IF e.leaf # e.path THEN "leaf" ELSE "none"

\* Lines 1118-1153: one pass of the loop.  cg->Attach(Pid) succeeds or fails
\* and a failure is only logged; the call through the null pointer is
\* undefined: the process dies, or the pass goes on without an attach.
FixPair ==
    /\ fix.pc = "loop"
    /\ LET e == fix.cgmap[fix.idx]
           a == FixAttach(e, fix.net)
           next == [fix EXCEPT !.idx = @ + 1, !.pc = AfterPair(fix.idx + 1),
                               !.ret = IF AfterPair(fix.idx + 1) = "done"
                                       THEN "Success" ELSE "none"]
       IN  \/ /\ a = "none"
              /\ fix' = next
           \/ /\ a \in {"root", "leaf"}
              /\ \E ok \in BOOLEAN :
                    fix' = [next EXCEPT !.attached =
                               Append(@, [k |-> e.k, to |-> a,
                                          cg |-> IF a = "root" THEN "/" ELSE e.leaf,
                                          ok |-> ok])]
           \/ /\ a = "null"
              /\ \/ fix' = [fix EXCEPT !.pc = "crashed"]
                 \/ fix' = next
    /\ UNCHANGED << mainVars, fsVars, capVars >>

FixNext == FixBegin \/ FixPair

\* One call of FixCgroups for every map of CgMaps.
CgSpec == FixInit /\ [][FixNext]_vars

\* ----------------------------------------------------------- specification

Next ==
    \/ StartCwdFail
    \/ StartPipeFail
    \/ StartForkFail
    \/ StartFork
    \/ IntAttach
    \/ IntClientMntNs
    \/ IntReopenStdio
    \/ IntEnterParentNs
    \/ IntSyncPipe
    \/ IntClone
    \/ IntReportPid
    \/ IntIsolateNet
    \/ IntSyncWrite
    \/ IntAbort
    \/ GcSyncRead
    \/ GcStep
    \/ SupWaitpid
    \/ SupWaitpidFail
    \/ SupReadPidEof
    \/ SupReadPid
    \/ SupDeserialize
    \/ Exit
    \/ Kill
    \/ Restore
    \/ HasCorrectParent
    \/ HasCorrectFreezer

Spec == Init /\ [][Next]_vars

\* The steps of each process.  Every process that can take a step eventually
\* takes one: the three are separate OS processes, each call they make
\* returns, and waitpid and read return once what they wait for is there.
SupNext == SupWaitpid \/ SupReadPidEof \/ SupReadPid \/ SupDeserialize
IntNext ==
    \/ IntAttach \/ IntClientMntNs \/ IntReopenStdio \/ IntEnterParentNs
    \/ IntSyncPipe \/ IntClone \/ IntReportPid \/ IntIsolateNet
    \/ IntSyncWrite \/ IntAbort
GcNext == GcSyncRead \/ GcStep

FairSpec ==
    Spec /\ WF_vars(SupNext) /\ WF_vars(IntNext) /\ WF_vars(GcNext)

\* ------------------------------------------------------------------ claims

StartReturned == spv_pc = "idle" /\ lastOp = "Start"
StartOk == StartReturned /\ lastRet = "Ok"
StartErr == StartReturned /\ lastRet = "Err"

\* C1: whenever Start returns success, GetPid() is strictly greater than zero
\* and IsRunning() is true.
C1_StartOkHasPositivePid ==
    StartOk => (Pid > 0 /\ State = "Started")

\* C2: whenever Start returns an error after the supervisor has read a
\* positive PID word, SIGKILL has been sent to that PID, and the process with
\* that pid is no longer running when Start returns.
C2_ErrorKillsReportedPid ==
    (StartErr /\ pidWord # << >> /\ pidWord[1] > 0)
        => /\ pidWord[1] \in killsSent
           /\ gcPid = pidWord[1] => gc_pc \in {"aborted", "killed"}

\* Start failed on a positive PID word and the grandchild was killed by it.
C2_Witness ==
    /\ StartErr /\ pidWord # << >> /\ pidWord[1] > 0
    /\ gcPid = pidWord[1] /\ gc_pc = "killed"

\* C3: between calls of Start, Exit, Restore, HasCorrectParent and
\* HasCorrectFreezer, a handle that is Started (its State assigned by one of
\* these calls) has a non-zero Pid.
C3_StartedHasPid ==
    (spv_pc = "idle" /\ StateAssigned /\ State = "Started") => Pid # 0

\* C4: whenever Start returns an error, whatever state an earlier call left
\* the handle in, the handle is as if never started: IsRunning() is false and
\* GetPid() is 0.
C4_FailedStartIsStopped ==
    (StartErr /\ StateAssigned) => (State = "Stopped" /\ Pid = 0)

\* The PID words of the spawn pipe's log.
PidWords == SelectSeq(spawnLog, LAMBDA m : m.type = "pid")

\* C5: once the intermediate has exited through its own code, exactly one PID
\* word has been written to the spawn pipe, by the intermediate, as the first
\* message; it is -1 unless clone() succeeded, and then it is the
\* grandchild's pid; everything after it is error records.
C5_OnePidWordFirst ==
    int_pc = "exited"
        => /\ Len(PidWords) = 1
           /\ spawnLog[1] = PidMsg("int", IF gcPid > 0 THEN gcPid ELSE -1)
           /\ \A i \in 2 .. Len(spawnLog) : spawnLog[i].type = "err"
           /\ intExit # 0 => (Len(spawnLog) >= 2 /\ spawnLog[2] = ErrMsg("int", intPend))

\* The intermediate failed before clone(): -1, then its error record.
C5_Witness ==
    /\ int_pc = "exited" /\ gcPid = 0 /\ Len(spawnLog) = 2
    /\ spawnLog[1].pid = -1 /\ spawnLog[2].type = "err"

C7_StepsAfterSync ==
    (gcDone # << >> \/ gc_pc \in {"steps", "execed"})
        => (gcSync = "word" /\ syncLog = << 0 >>)

\* The grandchild went through its steps to exec.
C7_Witness ==
    gc_pc = "execed" /\ Len(gcDone) >= 2 /\ gcSync = "word"

\* The intermediate exited after clone() without writing to the sync pipe.
IntLeftWithoutSync == int_pc = "exited" /\ gcPid > 0 /\ syncLog = << >>

\* C8 as stated: when the intermediate exits after clone() without writing
\* to the sync pipe, the grandchild leaves its sync read only by observing
\* EOF and failing with "partial read from child sync pipe".
C8_GrandchildObservesEof ==
    (IntLeftWithoutSync /\ gc_pc # "syncread")
        => (gc_pc = "aborted" /\ gcSync = "eof" /\ gcErr = PartialReadError)

\* C8 as amended: in that case the grandchild makes no call of ChildCallback
\* after the sync read and never execs; it ends either by observing EOF and
\* failing with "partial read from child sync pipe" or by the supervisor's
\* SIGKILL, and it does end (it does not block forever).
C8_GrandchildEndsWithoutExec ==
    /\ [](IntLeftWithoutSync
            => /\ gcDone = << >>
               /\ gc_pc \in {"syncread", "aborted", "killed"}
               /\ gc_pc = "aborted" =>
                     (gcSync = "eof" /\ gcErr.msg = "partial read from child sync pipe")
               /\ gc_pc = "killed" => gcPid \in killsSent)
    /\ (IntLeftWithoutSync ~> gc_pc \in {"aborted", "killed"})

\* IsolateNet failed, the intermediate exited, the grandchild saw EOF.
C8_Witness ==
    /\ IntLeftWithoutSync /\ isoNet = "failed"
    /\ gc_pc = "aborted" /\ gcSync = "eof"

\* The error records the grandchild wrote to the spawn pipe.
GcRecords == SelectSeq(spawnLog, LAMBDA m : m.who = "gc")

\* C9: a call of ChildCallback that returns an error is the last call made:
\* the grandchild serializes that error and nothing else to the spawn pipe
\* and exits non-zero, and the user command is not exec'ed.  The sync read
\* alike: when it fails, no call follows and at most its error is written.
C9_FailFast ==
    /\ \A i \in 1 .. Len(gcDone) :
          IsError(gcDone[i].error)
              => /\ i = Len(gcDone)
                 /\ gc_pc = "aborted"
                 /\ gcErr = gcDone[i].error
                 /\ gcExit # 0
                 /\ GcRecords = << ErrMsg("gc", gcErr) >>
    /\ gc_pc = "aborted"
          => /\ gcExit # 0
             /\ GcRecords \in {<< >>, << ErrMsg("gc", gcErr) >>}
             /\ gcSync = "eof" => gcDone = << >>
             /\ gcSync = "word" => IsError(gcDone[Len(gcDone)].error)
    /\ gc_pc = "execed" => GcRecords = << >>

\* A call after the first failed and the grandchild aborted with its error.
C9_Witness ==
    /\ gc_pc = "aborted" /\ Len(gcDone) >= 2
    /\ IsError(gcDone[Len(gcDone)].error)
    /\ GcRecords = << ErrMsg("gc", gcErr) >>

\* C10 as stated: every error record written to the spawn pipe during Start
\* is the error Start returns (looked at where waitpid succeeded).
C10_EveryRecordReturned ==
    (StartReturned /\ ~forkKilled)
        => \A i \in 1 .. Len(spawnLog) :
              spawnLog[i].type = "err"
                  => (lastRet = "Err" /\ startErr = spawnLog[i].err)

\* C10 as amended: when the PID word is followed by an error record, Start
\* returns an error with the kind, errno and message of that first record;
\* a later record is not reported.
C10_FirstRecordReturned ==
    (StartReturned /\ Len(spawnLog) >= 2
       /\ spawnLog[1].type = "pid" /\ spawnLog[2].type = "err")
        => /\ lastRet = "Err"
           /\ startErr.kind = spawnLog[2].err.kind
           /\ startErr.errno = spawnLog[2].err.errno
           /\ startErr.msg = spawnLog[2].err.msg

\* The intermediate's record was returned while the grandchild's followed it.
C10_Witness ==
    /\ StartErr /\ Len(spawnLog) = 3
    /\ spawnLog[2].who = "int" /\ spawnLog[3].who = "gc"
    /\ startErr = spawnLog[2].err /\ startErr # spawnLog[3].err

\* A consistency check made on a handle that an operation left Started.
CheckedStarted == StateAssigned /\ lastCall.State = "Started"

\* C11: HasCorrectFreezer, having read the task's cgroups and with an expected
\* freezer leaf to compare with: when the freezer path differs from the leaf
\* and the task is not a zombie it returns false and the handle is Stopped;
\* when the task is a zombie it returns true and State and Pid are as before;
\* when the paths match it returns true and State and Pid are as before.
C11_FreezerCheckOutcome ==
    (lastOp = "HasCorrectFreezer" /\ lastCall.obs.read /\ lastCall.obs.leaf = "set")
        => LET o == lastCall.obs
               kept == State = lastCall.State /\ Pid = lastCall.Pid
           IN  /\ (~o.same /\ ~o.zombie) => (lastRet = "false" /\ State = "Stopped")
               /\ o.zombie => (lastRet = "true" /\ kept)
               /\ o.same => (lastRet = "true" /\ kept)

\* A restored handle whose task is a zombie in another freezer passed the check.
C11_Witness ==
    /\ lastOp = "HasCorrectFreezer" /\ CheckedStarted
    /\ lastCall.obs.read /\ lastCall.obs.leaf = "set"
    /\ ~lastCall.obs.same /\ lastCall.obs.zombie
    /\ lastRet = "true" /\ State = "Started" /\ Pid \in ChildPids

\* C12: a consistency check on a Started handle that finds a PPid other than
\* getppid(), a freezer other than the leaf (the task not a zombie), or
\* cgroups it cannot read, returns false without throwing and leaves the
\* handle Stopped.
C12_InconsistencyDemotes ==
    (/\ CheckedStarted
     /\ \/ lastOp = "HasCorrectParent" /\ lastCall.obs.read /\ ~lastCall.obs.same
        \/ lastOp = "HasCorrectFreezer" /\ ~lastCall.obs.read
        \/ /\ lastOp = "HasCorrectFreezer" /\ lastCall.obs.read
           /\ lastCall.obs.leaf = "set"
           /\ ~lastCall.obs.same /\ ~lastCall.obs.zombie)
        => (lastRet = "false" /\ State = "Stopped")

\* C13: after Exit(status), from any state of the handle, the handle is
\* Stopped, GetExitStatus() is status and Pid is what it was.
C13_ExitStops ==
    lastOp = "Exit"
        => (State = "Stopped" /\ ExitStatus = lastCall.arg /\ Pid = lastCall.Pid)

\* Exit(256) was called on a Started handle with a pid.
C13_Witness ==
    /\ lastOp = "Exit" /\ lastCall.State = "Started" /\ StateAssigned
    /\ lastCall.arg = 256 /\ Pid \in ChildPids

\* C14: Kill(sig) with Pid equal to 0 signals no process and fails; with a
\* non-zero Pid it signals exactly the process Pid, or signals nothing and
\* returns an error when kill fails.
C14_KillNeedsPid ==
    lastOp = "Kill"
        => /\ lastCall.Pid = 0 => (lastCall.sent = {} /\ lastRet = "throw")
           /\ lastCall.Pid # 0
                => /\ lastRet \in {"Ok", "Err"}
                   /\ lastRet = "Ok" => lastCall.sent = {lastCall.Pid}
                   /\ lastRet = "Err" => lastCall.sent = {}

\* The last call the grandchild made was ChildExec, it failed, and Start
\* returned its error.
ExecFailureReturned ==
    /\ StartErr
    /\ gcDone # << >>
    /\ gcDone[Len(gcDone)].step = "ChildExec"
    /\ IsError(gcDone[Len(gcDone)].error)
    /\ startErr = gcDone[Len(gcDone)].error

\* C16: when ChildExec fails, for a non-zero wordexp result or because
\* execvpe returned, the error Start returns is of kind InvalidValue.
C16_ExecErrorsAreInvalidValue ==
    ExecFailureReturned => startErr.kind = "InvalidValue"

\* The bind mounts made for bind_map entries.
BindMounts == { i \in DOMAIN mounts : mounts[i].kind = "bind" }

\* C15: every bind mount ChildBindDirectores has made has its target inside
\* root; an entry whose resolved destination is not beneath root is not
\* mounted.
C15_BindMountsInsideRoot ==
    \A i \in BindMounts : ~InnerPath(fenv.Root, mounts[i].point).empty

\* The bounding set lacks every bit that is not in caps, the inheritable set
\* has every bit that is.
CapsTrimmed ==
    \A i \in AllCaps :
        /\ i \notin cenv.Caps => i \notin capBnd
        /\ i \in cenv.Caps => i \in capInh

\* C17: for every TTaskEnv, when the grandchild reaches exec, every bit of
\* 0..last_cap that is not in env.caps is absent from its bounding set and
\* every bit in env.caps is in its inheritable set.
C17_CapsTrimmedAtExec == cap_pc = "execed" => CapsTrimmed

\* C17, for the credential the trim is made for: when the grandchild of a
\* task whose credential is root reaches exec, its sets are trimmed to
\* env.caps; for any other credential both sets are as they were.
C17_RootCapsTrimmedAtExec ==
    cap_pc = "execed"
        => IF cenv.IsRoot
           THEN CapsTrimmed
           ELSE capBnd = AllCaps /\ capInh = {}

\* A root task with caps = {0} reached exec with bit 0 alone in both sets.
C17_Witness ==
    /\ cap_pc = "execed" /\ cenv.IsRoot /\ cenv.Caps = {0}
    /\ capBnd = {0} /\ capInh = {0}

\* A mount the claim lets stay read-write: a bind_map target asked for
\* read-write, or one of the overlays of ChildRestrictProc.
MayStayWritable(m) ==
    \/ m.kind = "bind" /\ ~fenv.BindMap[m.entry].Rdonly
    \/ m.kind \in {"roproc", "kcore"}

\* C18: with root_rdonly set, no loop image and a root other than "/", once
\* ChildRemountRootRo and ChildIsolateFs have run, every mount at or beneath
\* root is read-only, except bind_map targets asked for read-write and the
\* restricted-proc overlays.
C18_MountsUnderRootReadOnly ==
    (/\ fs_pc \in {"hostname", "done"}
     /\ fenv.RootRdOnly /\ fenv.LoopEmpty /\ fenv.Root # RootDir)
        => \A i \in DOMAIN mounts :
              (~InnerPath(fenv.Root, mounts[i].point).empty
               /\ ~MayStayWritable(mounts[i]))
                  => mounts[i].ro

\* C19: with a root other than "/", after the pass of ChildRemountRootRo
\* every bind mount made for an entry with read_only false is still
\* read-write, whether the entry's dest is absolute or relative to cwd.
C19_WritableBindsStayWritable ==
    (fs_pc = "isolate" /\ fenv.Root # RootDir)
        => \A i \in BindMounts :
              ~fenv.BindMap[mounts[i].entry].Rdonly => ~mounts[i].ro

\* The kinds of mount in the table.
MountKinds == { mounts[i].kind : i \in DOMAIN mounts }

\* C20: with root = "/", or with a parent mount namespace supplied, none of
\* the construction steps is performed: no mount is made, there is no
\* read-only remount pass, no pivot and no hostname.
C20_NoConstructionWithoutOwnRoot ==
    (fenv.Root = RootDir \/ fenv.ParentMntOpened)
        => /\ MountKinds \subseteq {"host"}
           /\ fsDone \cap {"remountro", "pivot", "hostname"} = {}

\* C20, as the calls are made: with a parent mount namespace supplied none of
\* the construction steps is performed; with root = "/" the mounts of
\* ChildMountRootFs, the pivot and the hostname are not performed, while the
\* bind_map mounts and the read-only remount pass are, as for any other root.
C20_RootFsOnlyWithOwnRoot ==
    /\ fenv.ParentMntOpened
          => (mounts = HostMounts /\ fsDone \subseteq {"parentns"})
    /\ fenv.Root = RootDir
          => /\ MountKinds \subseteq {"host", "bind"}
             /\ fsDone \cap {"pivot", "hostname"} = {}
    /\ (fs_pc = "done" /\ ~fenv.ParentMntOpened)
          => /\ { mounts[i].entry : i \in BindMounts } = DOMAIN fenv.BindMap
             /\ RemountPassRuns(fenv) => "remountro" \in fsDone

\* With root = "/" a bind_map entry was mounted and the remount pass ran.
C20_Witness ==
    /\ fs_pc = "done" /\ fenv.Root = RootDir /\ ~fenv.ParentMntOpened
    /\ BindMounts # {} /\ "remountro" \in fsDone

\* C21: when FixCgroups has gone through the map of a live task with the
\* network disabled, every net_cls pair whose path is not "/" made it attach
\* the task to the root cgroup "/" of net_cls, and no pair of an unknown
\* subsystem or of a combined hierarchy made it attach anything.
C21_NetClsReattachedToRoot ==
    (fix.pc \in {"done", "crashed"} /\ ~fix.zombie /\ fix.readOk /\ ~fix.net) =>
        /\ \A i \in 1 .. Len(fix.cgmap) :
              (CgKeys[fix.cgmap[i].k] = << "net_cls" >> /\ fix.cgmap[i].path # "/")
                  => \E j \in 1 .. Len(fix.attached) :
                        /\ fix.attached[j].k = fix.cgmap[i].k
                        /\ fix.attached[j].cg = "/"
        /\ \A j \in 1 .. Len(fix.attached) :
              \A i \in 1 .. Len(fix.cgmap) :
                  fix.cgmap[i].k = fix.attached[j].k
                      => fix.cgmap[i].known /\ Len(CgKeys[fix.cgmap[i].k]) = 1

\* C22: once the intermediate has called clone() it has attached itself to
\* every cgroup of Env->LeafCgroups, and when an attach failed clone() was
\* not called and there is no grandchild.
C22_AttachedBeforeClone ==
    /\ (clonePid # 0 \/ gc_pc # "none" \/ int_pc = "clone")
           => cgIdx = env.LeafCgroups
    /\ intPend = TError("Unknown", EINVAL, "cgroup attach")
           => clonePid = 0 /\ gc_pc = "none" /\ gcPid = 0

\* A grandchild exists and Env->LeafCgroups is not empty.
C22_Witness == gc_pc # "none" /\ env.LeafCgroups > 0 /\ cgIdx = env.LeafCgroups

\* The calls of ChildCallback that mount, change the root or the working
\* directory or set the host name, and those that trim capabilities and
\* switch credentials.
MountSteps ==
    {"remount slave", "datach procfs", "remount procfs", "ParentNs.Mnt.SetNs",
     "ParentNs.Root.Chroot", "Cwd.Chdir", "ChildMountRootFs",
     "ChildBindDirectores", "ChildRemountRootRo", "ChildIsolateFs",
     "ChildSetHostname", "remount shared"}
CredSteps == << "ChildApplyCapabilities", "setgid()", "setgroups()", "setuid()" >>

\* C23: in the grandchild a capability or credential call, and exec, is made
\* only when every call before it succeeded and every mount, chroot/pivot,
\* chdir and hostname call the Env asks for has been made; the calls are
\* ChildApplyCapabilities, setgid, setgroups, setuid, exec in this order with
\* nothing in between, so no mount or capability call follows setuid.
C23_CredentialsAfterMounts ==
    \A j \in 1 .. Len(gcDone) :
        LET s == gcDone[j].step
            cred == \E c \in 1 .. Len(CredSteps) : CredSteps[c] = s
        IN  /\ (cred \/ s = "ChildExec") =>
                  /\ \A i \in 1 .. j - 1 : gcDone[i].error = Success
                  /\ \A k \in 1 .. Len(ChildSteps) :
                        (ChildSteps[k] \in MountSteps /\ StepRuns(k))
                            => \E i \in 1 .. j - 1 : gcDone[i].step = ChildSteps[k]
            /\ s \in MountSteps =>
                  \A i \in 1 .. j - 1 :
                      \A c \in 1 .. Len(CredSteps) : gcDone[i].step # CredSteps[c]
            /\ \A c \in 2 .. Len(CredSteps) :
                  s = CredSteps[c] => j > 1 /\ gcDone[j - 1].step = CredSteps[c - 1]
            /\ s = "ChildExec" =>
                  j > 1 /\ gcDone[j - 1].step = CredSteps[Len(CredSteps)]

\* The grandchild of a task with its own mount namespace and root reached
\* exec.
C23_Witness ==
    /\ gc_pc = "execed"
    /\ env.NewMountNs /\ ~env.ParentMntOpened
    /\ \E j \in 1 .. Len(gcDone) : gcDone[j].step = "setuid()"

\* C24: for a root credential without CAP_SETPCAP in env.caps, CAP_SETPCAP
\* leaves the bounding set only when every other bit of 0..last_cap outside
\* env.caps has left it, and it has left it when exec is reached; for a
\* credential that is not root ChildApplyCapabilities makes no call: it never
\* enters the loop and both sets stay as they were.
C24_SetpcapDroppedLast ==
    /\ (cenv.IsRoot /\ cap_pc # "idle" /\ CAP_SETPCAP \notin cenv.Caps) =>
          /\ CAP_SETPCAP \notin capBnd
                => \A i \in AllCaps \ cenv.Caps : i \notin capBnd
          /\ cap_pc \in {"exec", "execed"} => CAP_SETPCAP \notin capBnd
    /\ (~cenv.IsRoot /\ cap_pc # "idle") =>
          /\ cap_pc \notin {"loop", "setpcap"}
          /\ capIdx = 0 /\ capBnd = AllCaps /\ capInh = {}

\* A root task with no capability in env.caps reached exec without
\* CAP_SETPCAP in its bounding set.
C24_Witness ==
    /\ cap_pc = "execed" /\ cenv.IsRoot /\ cenv.Caps = {}
    /\ CAP_SETPCAP \notin capBnd

\* C25: when Start has returned after a successful fork, the intermediate has
\* exited and the supervisor's waitpid has collected it, and a grandchild, if
\* there is one, is the process the intermediate's clone() made.
C25_IntermediateReaped ==
    (StartReturned /\ int_pc # "none") =>
        /\ int_pc = "exited" /\ ~forkKilled
        /\ gc_pc # "none" => gcPid = clonePid /\ clonePid > 0

\* C26: under fair scheduling of the supervisor, the intermediate and the
\* grandchild, a Start that forked returns (its waitpid, its read of the pid
\* word and its Deserialize all complete), and a grandchild blocked in the
\* read of the sync pipe gets out of it.
C26_StartTerminates ==
    /\ (spv_pc # "idle") ~> (spv_pc = "idle")
    /\ (gc_pc = "syncread") ~> (gc_pc # "syncread")

\* Start returned after its grandchild came out of the sync read with the
\* word the intermediate wrote.
C26_Witness == StartReturned /\ gcSync = "word" /\ clonePid > 0

\* C27: when Start returns success no process holds a write end of the spawn
\* pipe any more: the intermediate has exited with status zero, and the
\* grandchild has exec'ed or has ended without writing an error record.
C27_SuccessAfterWritersClosed ==
    StartOk =>
        /\ ~SpawnWriters
        /\ int_pc = "exited" /\ intExit = 0
        /\ \/ gc_pc = "execed"
           \/ gc_pc \in {"aborted", "killed"} /\ GcRecords = << >>

\* C28: the grandchild writes to the spawn pipe only when the intermediate
\* has written to the sync pipe or has ended; an error record of the
\* intermediate is the second message on the spawn pipe, right after the
\* intermediate's PID word and before any record of the grandchild; and when
\* the intermediate wrote one, it is the error Start returns.
C28_IntermediateRecordFirst ==
    /\ \A i \in 1 .. Len(spawnLog) :
          /\ spawnLog[i].who = "gc" => (syncLog # << >> \/ ~IntAlive)
          /\ (spawnLog[i].who = "int" /\ spawnLog[i].type = "err") =>
                /\ i = 2
                /\ spawnLog[1].who = "int" /\ spawnLog[1].type = "pid"
    /\ (StartReturned /\ \E i \in 1 .. Len(spawnLog) :
                            spawnLog[i].who = "int" /\ spawnLog[i].type = "err")
          => lastRet = "Err" /\ startErr = spawnLog[2].err

\* The write to the sync pipe failed: the intermediate's record came first,
\* the grandchild's 'partial read' record after it, and Start returned the
\* intermediate's.
C28_Witness ==
    /\ StartErr /\ Len(spawnLog) = 3
    /\ spawnLog[2] = ErrMsg("int", TError("Unknown", 0, "Partial write to child sync pipe"))
    /\ spawnLog[3] = ErrMsg("gc", PartialReadError)
    /\ startErr = spawnLog[2].err

\* C29: whenever Start is not running in the supervisor, after any number of
\* calls and whichever way each returned, the supervisor holds no descriptor
\* of a spawn pipe; while Start waits and reads it holds the read end only.
C29_NoSpawnPipeFdLeft ==
    /\ spv_pc = "idle" => supFds = {}
    /\ spv_pc # "idle" => supFds = {"Rfd"}

\* A Start whose fork() failed has returned, both ends of its pipe closed.
C29_Witness == StartErr /\ startErr.msg = "fork()" /\ supFds = {}

====
